---- MODULE Spec2Model ----
(***************************************************************************)
(* Request-cached waffle switches and flags with per-course overrides      *)
(* (openedx/core/djangoapps/waffle_utils/__init__.py), the namespaced-name *)
(* function, and the rate-limit seeding migration                          *)
(* (common/djangoapps/util/migrations/0002_data__default_rate_limit_       *)
(* config.py).                                                             *)
(*                                                                         *)
(* Python values are pinned as strings: "True", "False", "None".  Names   *)
(* and namespaces are sequences of one-character strings, so that the      *)
(* formatting of a namespaced name is computed and not assumed.            *)
(***************************************************************************)
EXTENDS Integers, Sequences, FiniteSets, TLC

\* ------------------------------------------------------------------ bounds

\* Request slots (threads), each serving one request after another.
NumRequests == 2

\* Override scopes that may be open at once in the specification of the
\* switches, nested in one request or spread over several.
MaxOpenScopes == 2

\* Request slots used in the specification of the switches.  Another
\* request reaches a request's override scope only through the switch store,
\* which SetSwitch writes at any time.
NumScopedRequests == 1

\* Longest namespace and longest name of the specification of the namespaced
\* names.
MaxLen == 2

\* Rows the rate-limit table may hold before the first run of the migration.
MaxInitRows == 3

\* Runs of the migration's forwards step.
MaxRuns == 3

\* Processes that run the migration.
NumRunners == 2

\* Longest language catalog (settings.LANGUAGES).
MaxCatalog == 2

\* Longest list of released language codes.
MaxReleased == 2

\* ------------------------------------------------------------ Python values

True == "True"

False == "False"

None == "None"

PyBool == {True, False}

\* A Python dict as a function; d.get(k) and d[k] = v.
EmptyDict == <<>>

Get(d, k) == IF k \in DOMAIN d THEN d[k] ELSE None

Put(d, k, v) == [x \in (DOMAIN d) \cup {k} |-> IF x = k THEN v ELSE d[x]]

\* ------------------------------------------------------- names and objects

Requests == 1..NumRequests

\* Course keys, and two values that are not CourseKey instances: the omitted
\* default (None) and a raw string.
Courses == {"C", "D"}

RawString == "course-v1:raw"

CourseIds == Courses \cup {None, RawString}

isCourseKey(course_id) == course_id \in Courses

\* The check_before_waffle_callback argument when no callback is supplied.
NoCallback == "NoCallback"

\* An evaluation the code did not make.
NotCalled == "NotCalled"

\* The namespace of both namespace objects of the model, and the names used
\* in it.
WAFFLE_NAMESPACE == <<"c">>

\* Two WaffleFlagNamespace objects constructed with that namespace string:
\* the one the flags of the model are built on, and another.
WAFFLE_FLAG_NAMESPACE == [id |-> "WAFFLE_FLAG_NAMESPACE", namespace |-> WAFFLE_NAMESPACE]

OTHER_FLAG_NAMESPACE == [id |-> "OTHER_FLAG_NAMESPACE", namespace |-> WAFFLE_NAMESPACE]

SwitchNames == {<<"s">>}

FlagNames == {<<"s">>}

\* A format string without the separator: u'{}{}'.
namespaced_name_no_separator(namespace, setting_name) == namespace \o setting_name

\* WaffleNamespace._namespaced_name: u'{}.{}'.format(self.namespace, setting_name)
_namespaced_name(namespace, setting_name) == namespace \o <<".">> \o setting_name

SwitchKeys == {_namespaced_name(WAFFLE_NAMESPACE, n) : n \in SwitchNames}

FlagKeys == {_namespaced_name(WAFFLE_NAMESPACE, n) : n \in FlagNames}

\* CourseOverrideWaffleFlagModel.ALL_CHOICES
ALL_CHOICES == {"on", "off", "unset"}

VARIABLES
    switchStore,     \* waffle's persisted switches: key -> "True" | "False"
    flagStore,       \* waffle's global flags: key -> "True" | "False"
    courseOverride,  \* CourseOverrideWaffleFlagModel: <<key, course>> -> choice
    cache,           \* cache[r]: the 'WaffleNamespace' request cache of slot r
    stack,           \* stack[r]: the override scopes request r has open
    ret,             \* the call made by the last step, with what it returned
    pinned,          \* history: the value request r's own calls established
                     \* for a name: the first is_enabled answer, or the last
                     \* override of the request
    evaluated,       \* history: the <<key, course>> pairs request r evaluated
                     \* through CourseOverrideWaffleFlag.is_enabled
    names,           \* two (namespace, name) pairs: <<ns1, n1, ns2, n2>>
    keys,            \* their namespaced names, once computed
    table,           \* the rows of RateLimitConfiguration, in insertion order
    pc,              \* pc[p]: where runner p stands in forwards
    exists,          \* exists[p]: what objects.exists() answered runner p
    runs,            \* runs of forwards started so far
    initial,         \* history: the table before the first run
    found_none,      \* history: the runs whose objects.exists() answered False
    LANGUAGES,       \* settings.LANGUAGES: the catalog, (code, name) tuples
    LANGUAGE_CODE,   \* settings.LANGUAGE_CODE: the default language code
    released_languages_list,  \* DarkLangConfig.current().released_languages_list
    released_language_codes,  \* the local list of released_languages, as the
                              \* call left it
    languages        \* what released_languages returned, once called

waffleVars == <<switchStore, flagStore, courseOverride, cache, stack, ret,
                pinned, evaluated>>

keyVars == <<names, keys>>

migrationVars == <<table, pc, exists, runs, initial, found_none>>

languageVars == <<LANGUAGES, LANGUAGE_CODE, released_languages_list,
                  released_language_codes, languages>>

vars == <<waffleVars, keyVars, migrationVars, languageVars>>

EmptyCache == [switches |-> EmptyDict, flags |-> EmptyDict]

\* An override scope a request has open: the arguments and locals of
\* WaffleSwitchNamespace.override (key, active, previous_active), the value
\* waffle's override_switch saved (old_value) and, as history, the request's
\* cached switches and the switch store as they were immediately before the
\* scope was entered.
\* A scope is in its with block ("body") or, once override_in_model has been
\* left, before the finally clause of override ("released"), which it reaches
\* by a return or by an exception (how), raised in the with block or by
\* override_in_model when it was left (left).  A scope opened by override_in_model
\* alone has no previous_active.
NoFrame ==
    [key |-> <<>>, active |-> None, previous_active |-> None, old_value |-> None,
     switchesAtEntry |-> EmptyDict, storeAtEntry |-> <<>>,
     kind |-> "override", phase |-> "body", how |-> None, left |-> None]

\* The call made by a step: the operation, the request, the namespaced name
\* and course id it was given, what it returned (value) or raised, what it
\* found in the request cache (cached), the namespace object it was made on
\* when the model has several (self), what the callback and waffle
\* answered when they were asked, and for the exit of an override scope the
\* scope, how it was left ("return" or "raise") and the steps of the exit in
\* the order they were made.  As history: the last value the request itself
\* had pinned for the name before the call (own) and whether this is the
\* request's first call for this name and course (first).
NoCall ==
    [op |-> "none", req |-> 0, key |-> <<>>, course |-> None, value |-> None,
     raised |-> None, cached |-> NotCalled, callback |-> NotCalled,
     waffle |-> NotCalled, own |-> None, first |-> FALSE, frame |-> NoFrame,
     how |-> None, steps |-> <<>>, self |-> None]

\* ------------------------------------------------------- the request cache

\* request_cache.get_cache(name): the dict of the current request's
\* thread-local cache; slot r stands for the thread serving request r.
get_request_cache(r) == r

\* A cache shared by every request of the process.
process_wide_cache(r) == 1

\* WaffleNamespace._get_namespace_request_cache
_get_namespace_request_cache(r) == get_request_cache(r)

\* WaffleSwitchNamespace._cached_switches
_cached_switches(r) == cache[_get_namespace_request_cache(r)].switches

\* A _cached_flags that uses the 'switches' dict.
cached_switches_for_flags(r) == cache[_get_namespace_request_cache(r)].switches

\* WaffleFlagNamespace._cached_flags
_cached_flags(r) == cache[_get_namespace_request_cache(r)].flags

\* ------------------------------------------------------------- the stores

\* waffle.switch_is_active(name)
switch_is_active(namespaced_switch_name) == switchStore[namespaced_switch_name]

\* waffle.flag_is_active(request, name)
flag_is_active(namespaced_flag_name) == flagStore[namespaced_flag_name]

\* CourseOverrideWaffleFlagModel.override_value(flag, course_id)
override_value(namespaced_flag_name, course_id) ==
    IF <<namespaced_flag_name, course_id>> \in DOMAIN courseOverride
    THEN courseOverride[<<namespaced_flag_name, course_id>>]
    ELSE "unset"

\* The closure _get_course_override_callback(course_id) returns, applied to
\* the namespaced flag name.
course_override_callback(namespaced_flag_name, course_id) ==
    LET force_override == override_value(namespaced_flag_name, course_id)
    IN  IF force_override = "on" THEN True
        ELSE IF force_override = "off" THEN False
        ELSE None

\* ---------------------------------------------------------------- requests

\* Every slot serves a request; a request makes calls at any time, except
\* between the two halves of the exit of an override scope, where no code of
\* the caller runs.
CanCall(r) ==
    /\ r \in Requests
    /\ stack[r] # <<>> => stack[r][Len(stack[r])].phase = "body"

\* The request in slot r ends and the next one starts: the request middleware
\* clears the request cache when the response is made and again when a
\* request comes in.  Override scopes are closed by then.
NextRequest(r) ==
    /\ stack[r] = <<>>
    /\ cache[get_request_cache(r)] # EmptyCache
    /\ cache' = [cache EXCEPT ![get_request_cache(r)] = EmptyCache]
    /\ pinned' = [pinned EXCEPT ![r] = EmptyCache]
    /\ evaluated' = [evaluated EXCEPT ![r] = {}]
    /\ ret' = NoCall
    /\ UNCHANGED <<switchStore, flagStore, courseOverride, stack,
                   keyVars, migrationVars, languageVars>>

\* ------------------------------------------------- writers of the stores

\* Another process (the admin site, a management command) sets a switch.
SetSwitch(k, v) ==
    /\ switchStore[k] # v
    /\ switchStore' = [switchStore EXCEPT ![k] = v]
    /\ ret' = NoCall
    /\ UNCHANGED <<flagStore, courseOverride, cache, stack, pinned, evaluated,
                   keyVars, migrationVars, languageVars>>

\* ... sets a global flag.
SetFlag(k, v) ==
    /\ flagStore[k] # v
    /\ flagStore' = [flagStore EXCEPT ![k] = v]
    /\ ret' = NoCall
    /\ UNCHANGED <<switchStore, courseOverride, cache, stack, pinned, evaluated,
                   keyVars, migrationVars, languageVars>>

\* ... forces a flag on or off for a course, or removes the override.
SetCourseOverride(k, c, choice) ==
    /\ courseOverride[<<k, c>>] # choice
    /\ courseOverride' = [courseOverride EXCEPT ![<<k, c>>] = choice]
    /\ ret' = NoCall
    /\ UNCHANGED <<switchStore, flagStore, cache, stack, pinned, evaluated,
                   keyVars, migrationVars, languageVars>>

\* ------------------------------------------------------------------- flags

\* A truth test in place of the test for None: "if not value".
flag_cache_miss_if_falsy(value) == value # True

\* WaffleFlagNamespace.is_enabled: "if value is None" after
\* value = self._cached_flags.get(namespaced_flag_name)
flag_cache_miss(value) == value = None

\* A truth test in place of the second test for None.
waffle_consulted_if_falsy(value) == value # True

\* WaffleFlagNamespace.is_enabled: the second "if value is None", before
\* value = flag_is_active(get_request(), namespaced_flag_name); value is None
\* here when no callback was supplied or the callback returned None.
waffle_consulted(value) == value = None

\* WaffleFlagNamespace.is_enabled(flag_name, check_before_waffle_callback) of
\* the namespace object self, called by request r directly or through the
\* facade named by op.  The callback is given as the course id its closure
\* holds.
WaffleFlagNamespace_is_enabled(self, r, flag_name, check_before_waffle_callback, op) ==
    LET namespaced_flag_name == _namespaced_name(self.namespace, flag_name)
        cached == Get(_cached_flags(r), namespaced_flag_name)
        miss == flag_cache_miss(cached)
        called == miss /\ check_before_waffle_callback # NoCallback
        fromCallback ==
            IF called
            THEN course_override_callback(namespaced_flag_name, check_before_waffle_callback)
            ELSE IF miss THEN None ELSE cached
        queried == miss /\ waffle_consulted(fromCallback)
        value == IF queried THEN flag_is_active(namespaced_flag_name) ELSE fromCallback
        own == Get(pinned[r].flags, namespaced_flag_name)
    IN  /\ cache' =
            IF miss
            THEN [cache EXCEPT ![_get_namespace_request_cache(r)].flags =
                                    Put(@, namespaced_flag_name, value)]
            ELSE cache
        /\ pinned' =
            IF own = None
            THEN [pinned EXCEPT ![r].flags = Put(@, namespaced_flag_name, value)]
            ELSE pinned
        /\ evaluated' =
            IF check_before_waffle_callback = NoCallback
            THEN evaluated
            ELSE [evaluated EXCEPT ![r] =
                    @ \cup {<<namespaced_flag_name, check_before_waffle_callback>>}]
        /\ ret' = [NoCall EXCEPT
                     !.op = op, !.req = r, !.key = namespaced_flag_name,
                     !.self = self.id,
                     !.course = check_before_waffle_callback,
                     !.value = value, !.cached = cached,
                     !.callback = IF called THEN fromCallback ELSE NotCalled,
                     !.waffle = IF queried THEN value ELSE NotCalled,
                     !.own = own,
                     !.first = <<namespaced_flag_name, check_before_waffle_callback>>
                                   \notin evaluated[r]]
        /\ UNCHANGED <<switchStore, flagStore, courseOverride, stack,
                       keyVars, migrationVars, languageVars>>

\* WaffleFlag.is_enabled()
WaffleFlag_is_enabled(r, flag_name) ==
    /\ CanCall(r)
    /\ WaffleFlagNamespace_is_enabled(WAFFLE_FLAG_NAMESPACE, r, flag_name, NoCallback,
                                      "WaffleFlag.is_enabled")

\* is_enabled(flag_name) called on a namespace object, without a callback.
WaffleFlagNamespace_is_enabled_call(self, r, flag_name) ==
    /\ CanCall(r)
    /\ WaffleFlagNamespace_is_enabled(self, r, flag_name, NoCallback,
                                      "WaffleFlagNamespace.is_enabled")

\* An is_enabled without the assertion.
any_course_id_accepted(course_id) == TRUE

\* The assertion that opens CourseOverrideWaffleFlag.is_enabled:
\* assert issubclass(type(course_id), CourseKey)
course_id_accepted(course_id) == isCourseKey(course_id)

\* CourseOverrideWaffleFlag.is_enabled(course_id)
CourseOverrideWaffleFlag_is_enabled(r, flag_name, course_id) ==
    /\ CanCall(r)
    /\ IF course_id_accepted(course_id)
       THEN WaffleFlagNamespace_is_enabled(WAFFLE_FLAG_NAMESPACE, r, flag_name,
                                           course_id,
                                           "CourseOverrideWaffleFlag.is_enabled")
       ELSE /\ ret' = [NoCall EXCEPT
                         !.op = "CourseOverrideWaffleFlag.is_enabled", !.req = r,
                         !.key = _namespaced_name(WAFFLE_NAMESPACE, flag_name),
                         !.course = course_id, !.raised = "AssertionError"]
            /\ UNCHANGED <<switchStore, flagStore, courseOverride, cache,
                           stack, pinned, evaluated,
                   keyVars, migrationVars, languageVars>>

\* ---------------------------------------------------------------- switches

\* A truth test in place of the test for None: "if not value".
switch_cache_miss_if_falsy(value) == value # True

\* WaffleSwitchNamespace.is_enabled: "if value is None" after
\* value = self._cached_switches.get(namespaced_switch_name)
switch_cache_miss(value) == value = None

\* An is_enabled that does not look at the request cache.
is_enabled_uncached(cch, r, namespaced_switch_name) ==
    switch_is_active(namespaced_switch_name)

\* The value WaffleSwitchNamespace.is_enabled(switch_name) returns to request
\* r when the request caches are cch.
is_enabled_value(cch, r, namespaced_switch_name) ==
    LET value == Get(cch[_get_namespace_request_cache(r)].switches, namespaced_switch_name)
    IN  IF switch_cache_miss(value)
        THEN switch_is_active(namespaced_switch_name)
        ELSE value

\* An is_enabled that does not cache what it read.
is_enabled_cache_skipped(cch, r, namespaced_switch_name) == cch

\* ... and the request caches it leaves.
is_enabled_cache(cch, r, namespaced_switch_name) ==
    LET value == Get(cch[_get_namespace_request_cache(r)].switches, namespaced_switch_name)
    IN  IF switch_cache_miss(value)
        THEN [cch EXCEPT ![_get_namespace_request_cache(r)].switches =
                Put(@, namespaced_switch_name, switch_is_active(namespaced_switch_name))]
        ELSE cch

\* An override_for_request that writes nothing.
override_for_request_skipped(cch, r, namespaced_switch_name, active) == cch

\* The request caches WaffleSwitchNamespace.override_for_request leaves.
override_for_request_cache(cch, r, namespaced_switch_name, active) ==
    [cch EXCEPT ![_get_namespace_request_cache(r)].switches =
        Put(@, namespaced_switch_name, active)]

\* WaffleSwitchNamespace.is_enabled(switch_name)
WaffleSwitchNamespace_is_enabled(r, switch_name) ==
    LET namespaced_switch_name == _namespaced_name(WAFFLE_NAMESPACE, switch_name)
        cached == Get(_cached_switches(r), namespaced_switch_name)
        value == is_enabled_value(cache, r, namespaced_switch_name)
        own == Get(pinned[r].switches, namespaced_switch_name)
    IN  /\ CanCall(r)
        /\ cache' = is_enabled_cache(cache, r, namespaced_switch_name)
        /\ pinned' =
            IF own = None
            THEN [pinned EXCEPT ![r].switches = Put(@, namespaced_switch_name, value)]
            ELSE pinned
        /\ ret' = [NoCall EXCEPT
                     !.op = "WaffleSwitchNamespace.is_enabled", !.req = r,
                     !.key = namespaced_switch_name, !.value = value,
                     !.cached = cached,
                     !.waffle = IF switch_cache_miss(cached) THEN value ELSE NotCalled,
                     !.own = own]
        /\ UNCHANGED <<switchStore, flagStore, courseOverride, stack, evaluated,
                       keyVars, migrationVars, languageVars>>

\* WaffleSwitchNamespace.override_for_request(switch_name, active)
override_for_request(r, switch_name, active) ==
    LET namespaced_switch_name == _namespaced_name(WAFFLE_NAMESPACE, switch_name)
    IN  /\ CanCall(r)
        /\ cache' = override_for_request_cache(cache, r, namespaced_switch_name, active)
        /\ pinned' = [pinned EXCEPT ![r].switches = Put(@, namespaced_switch_name, active)]
        /\ ret' = [NoCall EXCEPT
                     !.op = "override_for_request", !.req = r,
                     !.key = namespaced_switch_name, !.value = active]
        /\ UNCHANGED <<switchStore, flagStore, courseOverride, stack, evaluated,
                   keyVars, migrationVars, languageVars>>

\* ---------------------------------------------------------- override scopes

RECURSIVE ScopesOpenUpTo(_)
ScopesOpenUpTo(r) == IF r = 0 THEN 0 ELSE Len(stack[r]) + ScopesOpenUpTo(r - 1)

OpenScopes == ScopesOpenUpTo(NumRequests)

Top(r) == stack[r][Len(stack[r])]

Pop(r) == [stack EXCEPT ![r] = SubSeq(@, 1, Len(@) - 1)]

\* waffle.testutils.override_switch(name, active), entered: the persisted
\* value is saved and set to active.
waffle_override_switch_enter(namespaced_switch_name, active) ==
    [switchStore EXCEPT ![namespaced_switch_name] = active]

\* ... and left: the saved value is put back.
waffle_override_switch_exit(namespaced_switch_name, old_value) ==
    [switchStore EXCEPT ![namespaced_switch_name] = old_value]

\* WaffleSwitchNamespace.override(switch_name, active), up to its yield:
\* previous_active = is_enabled(switch_name), then
\* override_for_request(switch_name, active), then override_in_model is
\* entered.
override_enter(r, switch_name, active) ==
    LET namespaced_switch_name == _namespaced_name(WAFFLE_NAMESPACE, switch_name)
        previous_active == is_enabled_value(cache, r, namespaced_switch_name)
        cached == Get(_cached_switches(r), namespaced_switch_name)
        frame == [NoFrame EXCEPT
                    !.key = namespaced_switch_name, !.active = active,
                    !.previous_active = previous_active,
                    !.old_value = switchStore[namespaced_switch_name],
                    !.switchesAtEntry = _cached_switches(r),
                    !.storeAtEntry = switchStore]
    IN  /\ CanCall(r)
        /\ cache' = override_for_request_cache(
                        is_enabled_cache(cache, r, namespaced_switch_name),
                        r, namespaced_switch_name, active)
        /\ pinned' = [pinned EXCEPT ![r].switches = Put(@, namespaced_switch_name, active)]
        /\ switchStore' = waffle_override_switch_enter(namespaced_switch_name, active)
        /\ stack' = [stack EXCEPT ![r] = Append(@, frame)]
        /\ ret' = [NoCall EXCEPT
                     !.op = "override.enter", !.req = r,
                     !.key = namespaced_switch_name, !.value = previous_active,
                     !.cached = cached,
                     !.waffle = IF switch_cache_miss(cached) THEN previous_active
                               ELSE NotCalled,
                     !.own = Get(pinned[r].switches, namespaced_switch_name),
                     !.frame = frame,
                     !.steps = <<"is_enabled", "override_for_request",
                                 "override_in_model.enter">>]
        /\ UNCHANGED <<flagStore, courseOverride, evaluated,
                   keyVars, migrationVars, languageVars>>

\* A cleanup that runs only when the with block ends without an exception
\* (no try/finally around the yield).
finally_on_return_only(how) == how = "return"

\* Whether the finally clause of override runs when the with block is left
\* this way.
finally_runs(how) == how \in {"return", "raise"}

\* The innermost scope of request r is left, by the end of its with block
\* ("return") or by an exception raised inside it ("raise"): override_in_model
\* is left first, then the finally clause calls
\* override_for_request(switch_name, previous_active).
override_exit(r, how) ==
    LET frame == Top(r)
    IN  /\ CanCall(r)
        /\ stack[r] # <<>>
        /\ frame.kind = "override"
        /\ switchStore' = waffle_override_switch_exit(frame.key, frame.old_value)
        /\ cache' = IF finally_runs(how)
                    THEN override_for_request_cache(cache, r, frame.key,
                                                    frame.previous_active)
                    ELSE cache
        /\ pinned' = IF finally_runs(how)
                      THEN [pinned EXCEPT ![r].switches =
                                Put(@, frame.key, frame.previous_active)]
                      ELSE pinned
        /\ stack' = Pop(r)
        /\ ret' = [NoCall EXCEPT
                     !.op = "override.exit", !.req = r, !.key = frame.key,
                     !.frame = frame, !.how = how,
                     !.steps = IF finally_runs(how)
                               THEN <<"override_in_model.exit", "override_for_request">>
                               ELSE <<"override_in_model.exit">>]
        /\ UNCHANGED <<flagStore, courseOverride, evaluated,
                   keyVars, migrationVars, languageVars>>

\* WaffleSwitchNamespace.override_in_model(switch_name, active), called on
\* its own, up to its yield: waffle's override_switch is entered.
override_in_model_enter(r, switch_name, active) ==
    LET namespaced_switch_name == _namespaced_name(WAFFLE_NAMESPACE, switch_name)
        frame == [NoFrame EXCEPT
                    !.kind = "override_in_model",
                    !.key = namespaced_switch_name, !.active = active,
                    !.old_value = switchStore[namespaced_switch_name],
                    !.switchesAtEntry = _cached_switches(r),
                    !.storeAtEntry = switchStore]
    IN  /\ CanCall(r)
        /\ switchStore' = waffle_override_switch_enter(namespaced_switch_name, active)
        /\ stack' = [stack EXCEPT ![r] = Append(@, frame)]
        /\ ret' = [NoCall EXCEPT
                     !.op = "override_in_model.enter", !.req = r,
                     !.key = namespaced_switch_name, !.frame = frame]
        /\ UNCHANGED <<flagStore, courseOverride, cache, pinned, evaluated,
                       keyVars, migrationVars, languageVars>>

\* ... and after its yield, when its with block returns or raises: waffle's
\* override_switch is left.
override_in_model_exit(r, how) ==
    LET frame == Top(r)
    IN  /\ CanCall(r)
        /\ stack[r] # <<>>
        /\ frame.kind = "override_in_model"
        /\ switchStore' = waffle_override_switch_exit(frame.key, frame.old_value)
        /\ stack' = Pop(r)
        /\ ret' = [NoCall EXCEPT
                     !.op = "override_in_model.exit", !.req = r, !.key = frame.key,
                     !.frame = frame, !.how = how]
        /\ UNCHANGED <<flagStore, courseOverride, cache, pinned, evaluated,
                       keyVars, migrationVars, languageVars>>

\* The exit of override in its two halves, and the failures of the persisted
\* override.

\* WaffleSwitchNamespace.override(switch_name, active) when entering
\* waffle's override_switch raises: previous_active was taken and
\* override_for_request(switch_name, active) made, the store is as it was,
\* the with block is not run and the finally clause runs.
override_enter_fails(r, switch_name, active) ==
    LET namespaced_switch_name == _namespaced_name(WAFFLE_NAMESPACE, switch_name)
        previous_active == is_enabled_value(cache, r, namespaced_switch_name)
        overridden == override_for_request_cache(
                          is_enabled_cache(cache, r, namespaced_switch_name),
                          r, namespaced_switch_name, active)
        frame == [NoFrame EXCEPT
                    !.key = namespaced_switch_name, !.active = active,
                    !.previous_active = previous_active,
                    !.switchesAtEntry = _cached_switches(r),
                    !.storeAtEntry = switchStore,
                    !.how = "raise"]
    IN  /\ CanCall(r)
        /\ cache' = IF finally_runs("raise")
                    THEN override_for_request_cache(overridden, r,
                             namespaced_switch_name, previous_active)
                    ELSE overridden
        /\ pinned' = [pinned EXCEPT ![r].switches =
                        Put(@, namespaced_switch_name,
                            IF finally_runs("raise") THEN previous_active ELSE active)]
        /\ ret' = [NoCall EXCEPT
                     !.op = "override.enter", !.req = r,
                     !.key = namespaced_switch_name, !.value = previous_active,
                     !.raised = "Error",
                     !.own = Get(pinned[r].switches, namespaced_switch_name),
                     !.frame = frame, !.how = "raise",
                     !.steps = IF finally_runs("raise")
                               THEN <<"is_enabled", "override_for_request",
                                      "override_for_request">>
                               ELSE <<"is_enabled", "override_for_request">>]
        /\ UNCHANGED <<switchStore, flagStore, courseOverride, stack, evaluated,
                       keyVars, migrationVars, languageVars>>

\* The with block of the innermost scope of request r ends (how) and
\* override_in_model is left: waffle's override_switch puts the saved value
\* back, or raises (left = "raise") after or before it did (restored).
override_leave_model(r, how, left, restored) ==
    LET frame == Top(r)
    IN  /\ CanCall(r)
        /\ stack[r] # <<>>
        /\ frame.kind = "override"
        /\ left = "ok" => restored
        /\ switchStore' = IF restored
                          THEN waffle_override_switch_exit(frame.key, frame.old_value)
                          ELSE switchStore
        /\ stack' = [stack EXCEPT ![r][Len(stack[r])] =
                        [frame EXCEPT !.phase = "released", !.left = left,
                                      !.how = IF left = "raise" THEN "raise" ELSE how]]
        /\ ret' = [NoCall EXCEPT
                     !.op = "override_in_model.exit", !.req = r, !.key = frame.key,
                     !.raised = IF left = "raise" THEN "Error" ELSE None,
                     !.frame = frame, !.how = how]
        /\ UNCHANGED <<flagStore, courseOverride, cache, pinned, evaluated,
                       keyVars, migrationVars, languageVars>>

\* The finally clause of override, for the scope whose override_in_model was
\* left: override_for_request(switch_name, previous_active).
override_finally(r) ==
    LET frame == Top(r)
    IN  /\ r \in Requests
        /\ stack[r] # <<>>
        /\ frame.phase = "released"
        /\ cache' = IF finally_runs(frame.how)
                    THEN override_for_request_cache(cache, r, frame.key,
                                                    frame.previous_active)
                    ELSE cache
        /\ pinned' = IF finally_runs(frame.how)
                      THEN [pinned EXCEPT ![r].switches =
                                Put(@, frame.key, frame.previous_active)]
                      ELSE pinned
        /\ stack' = Pop(r)
        /\ ret' = [NoCall EXCEPT
                     !.op = "override.finally", !.req = r, !.key = frame.key,
                     !.frame = frame, !.how = frame.how]
        /\ UNCHANGED <<switchStore, flagStore, courseOverride, evaluated,
                       keyVars, migrationVars, languageVars>>

\* ---------------------------------------------------------- namespaced names

Alphabet == {"a", "."}

RECURSIVE StringsOfLen(_)
StringsOfLen(n) ==
    IF n = 0 THEN {<<>>}
    ELSE {Append(w, c) : w \in StringsOfLen(n - 1), c \in Alphabet}

\* The non-empty strings of at most MaxLen characters.
Strings == UNION {StringsOfLen(n) : n \in 1..MaxLen}

\* The namespaced names of the two pairs are computed.
ComputeKeys ==
    /\ keys = <<>>
    /\ keys' = <<_namespaced_name(names[1], names[2]),
                 _namespaced_name(names[3], names[4])>>
    /\ UNCHANGED <<names, waffleVars, migrationVars, languageVars>>

\* ------------------------------------------------------ the seeding migration

Runners == 1..NumRunners

\* RateLimitConfiguration.objects.exists()
objects_exists(rows) == Len(rows) > 0

\* A row that leaves rate limiting off.
disabled_row == [enabled |-> False]

\* The row RateLimitConfiguration.objects.create(enabled=True) inserts.
created_row == [enabled |-> True]

\* A forwards that inserts its row whatever the table holds.
always_create(found) == TRUE

\* forwards: if not objects.exists()
should_create(found) == ~found

\* forwards, line 13: the table is asked whether it holds a row.
forwards_exists(p) ==
    /\ pc[p] = "idle"
    /\ runs < MaxRuns
    /\ pc' = [pc EXCEPT ![p] = "checked"]
    /\ exists' = [exists EXCEPT ![p] = objects_exists(table)]
    /\ runs' = runs + 1
    /\ found_none' = IF objects_exists(table) THEN found_none ELSE found_none + 1
    /\ UNCHANGED <<table, initial, waffleVars, keyVars, languageVars>>

\* forwards, line 14: the row is inserted if none was found.
forwards_create(p) ==
    /\ pc[p] = "checked"
    /\ table' = IF should_create(exists[p]) THEN Append(table, created_row) ELSE table
    /\ pc' = [pc EXCEPT ![p] = "idle"]
    /\ UNCHANGED <<exists, runs, initial, found_none, waffleVars, keyVars,
                   languageVars>>

\* No other runner is inside forwards: migrations are applied one at a time.
Serial(p) == \A q \in Runners \ {p} : pc[q] = "idle"

\* ------------------------------------------------------- released languages

\* Language codes, in their lexicographic order, and display names.
LanguageCodes == {"de", "en", "fr"}

LanguageNames == {"name", "nom"}

CodeRank(code) == CASE code = "de" -> 1 [] code = "en" -> 2 [] code = "fr" -> 3

\* Language = namedtuple('Language', 'code name')
Language(code, name) == [code |-> code, name |-> name]

Elements(list) == {list[i] : i \in 1..Len(list)}

\* list.sort() on a list of codes, by insertion.
RECURSIVE InsertSorted(_, _)
InsertSorted(code, sortedList) ==
    IF sortedList = <<>> THEN <<code>>
    ELSE IF CodeRank(code) <= CodeRank(Head(sortedList)) THEN <<code>> \o sortedList
    ELSE <<Head(sortedList)>> \o InsertSorted(code, Tail(sortedList))

RECURSIVE Sorted(_)
Sorted(list) ==
    IF list = <<>> THEN <<>> ELSE InsertSorted(Head(list), Sorted(Tail(list)))

\* A released_languages that does not add the default language.
without_default_language(codes, default_language_code) == codes

\* released_languages: the default language code is appended to the released
\* codes if it is not among them, and the list is sorted again.
with_default_language(codes, default_language_code) ==
    IF default_language_code \notin Elements(codes)
    THEN Sorted(Append(codes, default_language_code))
    ELSE codes

\* released_languages: the list comprehension over settings.LANGUAGES.
RECURSIVE intersect_languages(_, _)
intersect_languages(catalog, codes) ==
    IF catalog = <<>> THEN <<>>
    ELSE LET language_info == Head(catalog)
         IN  (IF language_info[1] \in Elements(codes)
              THEN <<Language(language_info[1], language_info[2])>>
              ELSE <<>>)
             \o intersect_languages(Tail(catalog), codes)

\* released_languages()
released_languages ==
    /\ languages = None
    /\ released_language_codes' =
            with_default_language(released_languages_list, LANGUAGE_CODE)
    /\ languages' = intersect_languages(LANGUAGES, released_language_codes')
    /\ UNCHANGED <<LANGUAGES, LANGUAGE_CODE, released_languages_list,
                   waffleVars, keyVars, migrationVars>>

\* ----------------------------------------------------------- specification

NoRequests ==
    /\ cache = [r \in Requests |-> EmptyCache]
    /\ stack = [r \in Requests |-> <<>>]
    /\ ret = NoCall
    /\ pinned = [r \in Requests |-> EmptyCache]
    /\ evaluated = [r \in Requests |-> {}]

NoKeys ==
    /\ names = <<>>
    /\ keys = <<>>

NoMigration ==
    /\ table = <<>>
    /\ pc = [p \in Runners |-> "idle"]
    /\ exists = [p \in Runners |-> FALSE]
    /\ runs = 0
    /\ initial = <<>>
    /\ found_none = 0

NoLanguages ==
    /\ LANGUAGES = <<>>
    /\ LANGUAGE_CODE = None
    /\ released_languages_list = <<>>
    /\ released_language_codes = None
    /\ languages = None

AnySwitches == switchStore \in [SwitchKeys -> PyBool]

NoSwitches == switchStore = [k \in SwitchKeys |-> False]

AnyFlags == flagStore \in [FlagKeys -> PyBool]

NoFlags == flagStore = [k \in FlagKeys |-> False]

AnyOverrides == courseOverride \in [FlagKeys \X Courses -> ALL_CHOICES]

NoOverrides == courseOverride = [p \in FlagKeys \X Courses |-> "unset"]

\* Every flag is forced on for course C and off for course D, or the other
\* way round.
OpposedOverrides ==
    \E c \in Courses :
        courseOverride = [p \in FlagKeys \X Courses |->
                            IF p[2] = c THEN "on" ELSE "off"]

ScopedRequests == 1..NumScopedRequests

Lifecycle(rs) ==
    \E r \in rs : NextRequest(r)

SwitchWriters ==
    \E k \in SwitchKeys, v \in PyBool : SetSwitch(k, v)

FlagWriters ==
    \E k \in FlagKeys, v \in PyBool : SetFlag(k, v)

OverrideWriters ==
    \E k \in FlagKeys, c \in Courses, choice \in ALL_CHOICES :
        SetCourseOverride(k, c, choice)

FlagCalls(rs) ==
    \E r \in rs, n \in FlagNames : WaffleFlag_is_enabled(r, n)

CourseFlagCalls(rs) ==
    \E r \in rs, n \in FlagNames, c \in CourseIds :
        CourseOverrideWaffleFlag_is_enabled(r, n, c)

SwitchCalls(rs) ==
    \/ \E r \in rs, n \in SwitchNames : WaffleSwitchNamespace_is_enabled(r, n)
    \/ \E r \in rs, n \in SwitchNames, active \in PyBool :
            override_for_request(r, n, active)

\* Override scopes, at most limit of them open at once.
ScopeCalls(rs, limit) ==
    \/ \E r \in rs, n \in SwitchNames, active \in PyBool :
            OpenScopes < limit /\ override_enter(r, n, active)
    \/ \E r \in rs, how \in {"return", "raise"} : override_exit(r, how)

\* Flags, with course overrides.
InitFlags ==
    /\ NoRequests /\ NoSwitches /\ AnyFlags /\ AnyOverrides /\ NoKeys /\ NoMigration
    /\ NoLanguages

NextFlags ==
    \/ Lifecycle(Requests)
    \/ FlagWriters
    \/ OverrideWriters
    \/ FlagCalls(Requests)
    \/ CourseFlagCalls(Requests)

SpecFlags == InitFlags /\ [][NextFlags]_vars

\* Course-aware evaluations of a flag under stores that nobody writes.
NextFlagsStatic ==
    \/ Lifecycle(Requests)
    \/ CourseFlagCalls(Requests)

SpecFlagsStatic == InitFlags /\ [][NextFlagsStatic]_vars

\* Switches, with nested override scopes.
InitSwitches ==
    /\ NoRequests /\ AnySwitches /\ NoFlags /\ NoOverrides /\ NoKeys /\ NoMigration
    /\ NoLanguages

NextSwitches ==
    \/ Lifecycle(ScopedRequests)
    \/ SwitchWriters
    \/ SwitchCalls(ScopedRequests)
    \/ ScopeCalls(ScopedRequests, MaxOpenScopes)

SpecSwitches == InitSwitches /\ [][NextSwitches]_vars

\* The override scopes of one request, nested, step by step and with the
\* failures of the persisted override; nobody else writes the switch store.
FirstRequest == CHOOSE r \in Requests : \A q \in Requests : r <= q

NextScopes ==
    \/ Lifecycle({FirstRequest})
    \/ \E n \in SwitchNames : WaffleSwitchNamespace_is_enabled(FirstRequest, n)
    \/ \E n \in SwitchNames, active \in PyBool :
            OpenScopes < MaxOpenScopes /\ override_enter(FirstRequest, n, active)
    \/ \E n \in SwitchNames, active \in PyBool :
            override_enter_fails(FirstRequest, n, active)
    \/ \E how \in {"return", "raise"}, left \in {"ok", "raise"}, restored \in BOOLEAN :
            override_leave_model(FirstRequest, how, left, restored)
    \/ override_finally(FirstRequest)

SpecScopes == InitSwitches /\ [][NextScopes]_vars

\* The reads and overrides of one request, with override_in_model scopes
\* opened on their own.
InitEffects ==
    /\ NoRequests /\ AnySwitches /\ AnyFlags /\ OpposedOverrides /\ NoKeys
    /\ NoMigration /\ NoLanguages

NextEffects ==
    \/ Lifecycle({FirstRequest})
    \/ SwitchCalls({FirstRequest})
    \/ FlagCalls({FirstRequest})
    \/ CourseFlagCalls({FirstRequest})
    \/ \E n \in SwitchNames, active \in PyBool :
            OpenScopes < MaxOpenScopes /\ override_in_model_enter(FirstRequest, n, active)
    \/ \E how \in {"return", "raise"} : override_in_model_exit(FirstRequest, how)

SpecEffects == InitEffects /\ [][NextEffects]_vars

\* A switch and flags of the same namespaced name in one request: the switch
\* with its overrides, the flag through its two facades and through two
\* namespace objects.  Nobody writes the stores.
NextCaches ==
    \/ Lifecycle({FirstRequest})
    \/ SwitchCalls({FirstRequest})
    \/ ScopeCalls({FirstRequest}, MaxOpenScopes)
    \/ FlagCalls({FirstRequest})
    \/ CourseFlagCalls({FirstRequest})
    \/ \E self \in {WAFFLE_FLAG_NAMESPACE, OTHER_FLAG_NAMESPACE}, n \in FlagNames :
            WaffleFlagNamespace_is_enabled_call(self, FirstRequest, n)

SpecCaches == InitEffects /\ [][NextCaches]_vars

\* Switches and flags of concurrent requests.  One override scope is open at
\* a time, in one of the slots ScopedRequests: what a scope writes to the
\* request cache does not depend on the scopes around it.  The scopes are the
\* writers of the switch store.
Init ==
    /\ NoRequests /\ AnySwitches /\ AnyFlags /\ NoOverrides /\ NoKeys /\ NoMigration
    /\ NoLanguages

Next ==
    \/ Lifecycle(Requests)
    \/ FlagWriters
    \/ SwitchCalls(Requests)
    \/ FlagCalls(Requests)
    \/ ScopeCalls(ScopedRequests, 1)

Spec == Init /\ [][Next]_vars

\* The namespaced names of any two (namespace, name) pairs.
InitKeys ==
    /\ names \in Strings \X Strings \X Strings \X Strings
    /\ keys = <<>>
    /\ NoRequests /\ NoSwitches /\ NoFlags /\ NoOverrides /\ NoMigration
    /\ NoLanguages

NextKeys == ComputeKeys

SpecKeys == InitKeys /\ [][NextKeys]_vars

\* The migration, run again and again, one run at a time, on any table.
Rows == [enabled : PyBool]

RECURSIVE TablesOfLen(_)
TablesOfLen(n) ==
    IF n = 0 THEN {<<>>}
    ELSE {Append(t, row) : t \in TablesOfLen(n - 1), row \in Rows}

InitMigration ==
    /\ table \in UNION {TablesOfLen(n) : n \in 0..MaxInitRows}
    /\ initial = table
    /\ pc = [p \in Runners |-> "idle"]
    /\ exists = [p \in Runners |-> FALSE]
    /\ runs = 0
    /\ found_none = 0
    /\ NoRequests /\ NoSwitches /\ NoFlags /\ NoOverrides /\ NoKeys
    /\ NoLanguages

NextMigration ==
    \/ \E p \in Runners : Serial(p) /\ forwards_exists(p)
    \/ \E p \in Runners : Serial(p) /\ forwards_create(p)

SpecMigration == InitMigration /\ [][NextMigration]_vars

\* The migration run by several processes at once: nothing keeps a run from
\* starting while another is between its check and its insert.
NextMigrationRace ==
    \/ \E p \in Runners : forwards_exists(p)
    \/ \E p \in Runners : forwards_create(p)

SpecMigrationRace == InitMigration /\ [][NextMigrationRace]_vars

\* released_languages, on any catalog, any list of released codes in any
\* order, and any default language.
RECURSIVE ListsOfLen(_, _)
ListsOfLen(S, n) ==
    IF n = 0 THEN {<<>>}
    ELSE {Append(l, x) : l \in ListsOfLen(S, n - 1), x \in S}

InitLanguages ==
    /\ LANGUAGES \in UNION {ListsOfLen(LanguageCodes \X LanguageNames, n) :
                                n \in 0..MaxCatalog}
    /\ LANGUAGE_CODE \in LanguageCodes
    /\ released_languages_list \in
            UNION {ListsOfLen(LanguageCodes, n) : n \in 0..MaxReleased}
    /\ released_language_codes = None
    /\ languages = None
    /\ NoRequests /\ NoSwitches /\ NoFlags /\ NoOverrides /\ NoKeys /\ NoMigration

NextLanguages == released_languages

SpecLanguages == InitLanguages /\ [][NextLanguages]_vars

\* ------------------------------------------------------------------ flags

FlagOps == {"WaffleFlag.is_enabled", "CourseOverrideWaffleFlag.is_enabled"}

\* The last step was a flag evaluation that returned a value.
FlagEvaluated == ret.op \in FlagOps /\ ret.raised = None

\* What the course override store says about (flag, course), read from the
\* store itself: "True" for on, "False" for off, "None" otherwise or when the
\* evaluation has no course.
OverrideAnswer(namespaced_flag_name, course_id) ==
    IF <<namespaced_flag_name, course_id>> \notin DOMAIN courseOverride THEN None
    ELSE IF courseOverride[<<namespaced_flag_name, course_id>>] = "on" THEN True
    ELSE IF courseOverride[<<namespaced_flag_name, course_id>>] = "off" THEN False
    ELSE None

\* What the stores alone give for (flag, course).
Resolved(namespaced_flag_name, course_id) ==
    IF OverrideAnswer(namespaced_flag_name, course_id) # None
    THEN OverrideAnswer(namespaced_flag_name, course_id)
    ELSE flagStore[namespaced_flag_name]

\* C1: within one request, once is_enabled has returned a value for a
\* namespaced flag name, every later is_enabled call for that name in the
\* request (through WaffleFlag or CourseOverrideWaffleFlag) returns that same
\* value, whatever was written to the global flag store or the course
\* override store in between.
C1_FlagMemoized ==
    (FlagEvaluated /\ ret.own # None) => ret.value = ret.own

\* C1, witness: a later call returns the value of the request's first call
\* although the stores now resolve the flag to the other value.
C1_Witness ==
    /\ FlagEvaluated
    /\ ret.own # None
    /\ ret.value = ret.own
    /\ Resolved(ret.key, ret.course) # ret.value

\* C2: if the course override store holds on (off) for (flag, C), the first
\* call of CourseOverrideWaffleFlag.is_enabled(C) in a request returns true
\* (false), whatever the global flag store holds and whatever the request
\* evaluated before.
C2_CourseOverrideWins ==
    (/\ ret.op = "CourseOverrideWaffleFlag.is_enabled"
     /\ ret.raised = None
     /\ ret.first
     /\ OverrideAnswer(ret.key, ret.course) # None)
    => ret.value = OverrideAnswer(ret.key, ret.course)

\* C3: with the flag forced on for course C, no override for course D and
\* the global flag off, is_enabled(C) returns true and is_enabled(D) returns
\* false, in whichever order and in whichever requests the calls are made.
C3_OverrideAffectsOnlyItsCourse ==
    (/\ ret.op = "CourseOverrideWaffleFlag.is_enabled"
     /\ ret.raised = None
     /\ OverrideAnswer(ret.key, "C") = True
     /\ override_value(ret.key, "D") = "unset"
     /\ flagStore[ret.key] = False)
    => ret.value = (IF ret.course = "C" THEN True ELSE False)

\* C4: an evaluation that finds a value in the request's flag cache returns
\* it and asks neither the callback nor the global flag store; otherwise a
\* supplied callback is asked, and if it answers true or false that is
\* returned and the global flag store is not asked; otherwise the global
\* flag store's value is returned; and in the last two cases the returned
\* value is in the request's flag cache after the call.
C4_ReadPrecedence ==
    FlagEvaluated =>
        /\ ret.cached \in PyBool =>
                /\ ret.value = ret.cached
                /\ ret.callback = NotCalled
                /\ ret.waffle = NotCalled
        /\ (ret.cached = None /\ ret.course # NoCallback) =>
                ret.callback = OverrideAnswer(ret.key, ret.course)
        /\ (ret.cached = None /\ ret.course = NoCallback) =>
                ret.callback = NotCalled
        /\ (ret.cached = None /\ ret.callback \in PyBool) =>
                /\ ret.value = ret.callback
                /\ ret.waffle = NotCalled
        /\ (ret.cached = None /\ ret.callback \notin PyBool) =>
                /\ ret.value = flagStore[ret.key]
                /\ ret.waffle = ret.value
        /\ ret.cached = None =>
                Get(_cached_flags(ret.req), ret.key) = ret.value
        /\ ret.cached \in PyBool \cup {None}

\* C4, witness: nothing was cached, the callback answered, and its answer was
\* returned although the global flag store holds the other value.
C4_Witness ==
    /\ FlagEvaluated
    /\ ret.cached = None
    /\ ret.callback \in PyBool
    /\ ret.value = ret.callback
    /\ flagStore[ret.key] # ret.value
    /\ Get(_cached_flags(ret.req), ret.key) = ret.value

\* C9: CourseOverrideWaffleFlag.is_enabled with a course_id that is not a
\* CourseKey (None, a raw string) raises AssertionError, returns no value,
\* reads neither the request cache nor the stores, and leaves the request
\* caches, the course override store and the global flag store unchanged.
C9_BadCourseIdFailsFast ==
    [][(/\ ret'.op = "CourseOverrideWaffleFlag.is_enabled"
        /\ ~isCourseKey(ret'.course))
       => /\ ret'.raised = "AssertionError"
          /\ ret'.value = None
          /\ ret'.cached = NotCalled
          /\ ret'.callback = NotCalled
          /\ ret'.waffle = NotCalled
          /\ cache' = cache
          /\ courseOverride' = courseOverride
          /\ flagStore' = flagStore]_vars

\* C9, witness: the call was made with no course in a request whose flag
\* cache is empty, and it raised.
C9_Witness ==
    /\ ret.op = "CourseOverrideWaffleFlag.is_enabled"
    /\ ret.course = None
    /\ ret.raised = "AssertionError"
    /\ _cached_flags(ret.req) = EmptyDict

\* --------------------------------------------------------- override scopes

\* The value WaffleSwitchNamespace.is_enabled had for the scope's switch
\* immediately before the scope was entered: the value the request had cached
\* then or, if it had none, the value the switch store held then.
EffectiveAtEntry(frame) ==
    IF frame.key \in DOMAIN frame.switchesAtEntry
    THEN frame.switchesAtEntry[frame.key]
    ELSE frame.storeAtEntry[frame.key]

\* C5: after a WaffleSwitchNamespace.override(switch, active) scope is left,
\* by the end of its block or by an exception raised inside it, the request
\* cache holds for that switch the effective value is_enabled(switch) had
\* when the scope was entered.
C5_OverrideRestoresCache ==
    ret.op = "override.exit" =>
        Get(_cached_switches(ret.req), ret.key) = EffectiveAtEntry(ret.frame)

\* C5, witness: a scope that overrode the switch to the other value, inside
\* which the request cache was left holding that other value, is left by an
\* exception.
C5_Witness ==
    /\ ret.op = "override.exit"
    /\ ret.how = "raise"
    /\ ret.frame.active # EffectiveAtEntry(ret.frame)
    /\ Get(_cached_switches(ret.req), ret.key) = EffectiveAtEntry(ret.frame)
    /\ ret.frame.key \in DOMAIN ret.frame.switchesAtEntry

\* C6: after a scope is left by an exception, the request's cached switches
\* and the switch store are exactly as they were immediately before the
\* scope was entered: same cached keys, same cached values, same persisted
\* values.
C6_OverrideLeavesNoTrace ==
    (ret.op = "override.exit" /\ ret.how = "raise") =>
        /\ _cached_switches(ret.req) = ret.frame.switchesAtEntry
        /\ switchStore = ret.frame.storeAtEntry

\* C6, as the code has it: after a scope is left by an exception, the
\* persisted value of the scope's switch is the one saved when the persisted
\* override was entered, and the request cache holds an entry for that switch,
\* with the effective value the switch had at entry: the entry is there
\* whether or not the switch was cached before the scope.
C6_OverrideRestoresItsSwitch ==
    (ret.op = "override.exit" /\ ret.how = "raise") =>
        /\ switchStore[ret.key] = ret.frame.storeAtEntry[ret.key]
        /\ ret.key \in DOMAIN _cached_switches(ret.req)
        /\ _cached_switches(ret.req)[ret.key] = EffectiveAtEntry(ret.frame)

\* C6, witness: a scope entered when the switch was not cached is left by an
\* exception; the store is back at its value, and the cache has a key it did
\* not have.
C6_Witness ==
    /\ ret.op = "override.exit"
    /\ ret.how = "raise"
    /\ ret.key \notin DOMAIN ret.frame.switchesAtEntry
    /\ ret.key \in DOMAIN _cached_switches(ret.req)
    /\ ret.frame.active # ret.frame.storeAtEntry[ret.key]
    /\ switchStore = ret.frame.storeAtEntry

\* ---------------------------------------------------------- namespaced names

HasDot(w) == \E i \in 1..Len(w) : w[i] = "."

\* key is namespace, then one ".", then setting_name.
IsJoined(key, namespace, setting_name) ==
    /\ Len(key) = Len(namespace) + 1 + Len(setting_name)
    /\ \A i \in 1..Len(namespace) : key[i] = namespace[i]
    /\ key[Len(namespace) + 1] = "."
    /\ \A i \in 1..Len(setting_name) : key[Len(namespace) + 1 + i] = setting_name[i]

KeysComputed == keys # <<>>

WellFormedKeys ==
    /\ IsJoined(keys[1], names[1], names[2])
    /\ IsJoined(keys[2], names[3], names[4])

SamePair == names[1] = names[3] /\ names[2] = names[4]

\* C7: _namespaced_name returns namespace + "." + name, and the keys of two
\* (namespace, name) pairs of non-empty strings are equal only if the
\* namespaces are equal and the names are equal.
C7_KeysInjective ==
    KeysComputed => (WellFormedKeys /\ (keys[1] = keys[2] => SamePair))

\* C7, as the code has it: _namespaced_name returns namespace + "." + name,
\* and the keys of two pairs of non-empty strings are equal only if the
\* namespaces are equal and the names are equal, provided that neither
\* namespace contains a "." or neither name contains a ".".
C7_KeysInjectiveWithoutDots ==
    KeysComputed =>
        /\ WellFormedKeys
        /\ (/\ \/ ~HasDot(names[1]) /\ ~HasDot(names[3])
               \/ ~HasDot(names[2]) /\ ~HasDot(names[4])
            /\ keys[1] = keys[2]) => SamePair

\* C7, witness: two different pairs with dot-free namespaces of different
\* lengths and a "." in a name get keys of the same length that differ.
C7_Witness ==
    /\ KeysComputed
    /\ ~HasDot(names[1]) /\ ~HasDot(names[3])
    /\ Len(names[1]) # Len(names[3])
    /\ HasDot(names[2])
    /\ Len(keys[1]) = Len(keys[2])
    /\ keys[1] # keys[2]

\* ------------------------------------------------------- request isolation

\* The value the request itself established for the name of the last call,
\* before that call.
OwnValue == ret.own

\* C8: a read made by a request returns the value that request itself
\* established for the name (by is_enabled, override or
\* override_for_request) if it established one, and otherwise the value of
\* the store, whatever any other request, running at the same time or served
\* before in the same slot, has in its cache.
C8_RequestIsolation ==
    /\ ret.op = "WaffleSwitchNamespace.is_enabled" =>
            ret.value = (IF OwnValue # None THEN OwnValue ELSE switchStore[ret.key])
    /\ ret.op = "WaffleFlag.is_enabled" =>
            ret.value = (IF OwnValue # None THEN OwnValue ELSE flagStore[ret.key])
    /\ ret.op = "override.enter" =>
            ret.value = (IF OwnValue # None THEN OwnValue
                         ELSE ret.frame.storeAtEntry[ret.key])

\* C8, witness: a request that has established no value for a switch reads
\* it from the store while another request holds the other value for it in
\* its own cache.
C8_Witness ==
    /\ ret.op = "WaffleSwitchNamespace.is_enabled"
    /\ OwnValue = None
    /\ ret.value = switchStore[ret.key]
    /\ \E r \in Requests \ {ret.req} :
            /\ ret.key \in DOMAIN _cached_switches(r)
            /\ _cached_switches(r)[ret.key] # ret.value

\* ------------------------------------------------------ the seeding migration

NoRunUnderWay == \A p \in Runners : pc[p] = "idle"

\* C10: after any number of runs of forwards made one after another, a table
\* that was empty before the first run holds exactly one row, with
\* enabled = True, and a table that held a row before the first run is as it
\* was: no row added, no row changed.
C10_SeedingIdempotent ==
    (NoRunUnderWay /\ runs >= 1) =>
        IF initial = <<>>
        THEN table = <<[enabled |-> True]>>
        ELSE table = initial

\* C10, witness: the migration ran more than once on a table that was empty,
\* and the table holds one row.
C10_Witness ==
    /\ NoRunUnderWay
    /\ runs >= 2
    /\ initial = <<>>
    /\ Len(table) = 1

\* ------------------------------------------------------- released languages

Returned == languages # None

\* The released set extended with the default language code.
ReleasedOrDefault == Elements(released_languages_list) \cup {LANGUAGE_CODE}

\* The positions of the catalog whose code is released or the default.
Kept == {i \in 1..Len(LANGUAGES) : LANGUAGES[i][1] \in ReleasedOrDefault}

\* C11: released_languages() returns exactly the catalog entries whose code
\* is in the released set extended with the default language code, each once
\* per catalog position and in the catalog's order, whatever the order of
\* the released codes and whether or not the default had to be added.
C11_ReleasedLanguagesFilterCatalog ==
    Returned =>
        /\ Len(languages) = Cardinality(Kept)
        /\ \A i \in Kept :
              languages[Cardinality({k \in Kept : k <= i})] =
                  [code |-> LANGUAGES[i][1], name |-> LANGUAGES[i][2]]

\* C11, witness: the default code is not released, its catalog entry is
\* returned with a released one, and the result follows the catalog, which
\* is not in the order of the codes.
C11_Witness ==
    /\ Returned
    /\ LANGUAGE_CODE \notin Elements(released_languages_list)
    /\ released_languages_list # <<>>
    /\ Len(languages) = 2
    /\ languages[1].code # languages[2].code
    /\ CodeRank(languages[1].code) > CodeRank(languages[2].code)
    /\ LANGUAGE_CODE \in {languages[1].code, languages[2].code}

\* ------------------------------------------------ override scopes, in steps

CachedSwitch(r, namespaced_switch_name) ==
    Get(_cached_switches(r), namespaced_switch_name)

\* C12: while a WaffleSwitchNamespace.override(switch, active) scope is the
\* innermost one of a request, the request cache holds active for the switch
\* and is_enabled(switch) returns active, and on entry the persisted store
\* holds active; the persisted override is released while the cache still
\* holds active, and the request cache is restored to the value at entry
\* after that, on every exit: when the block returns, when it raises, and
\* when leaving or entering the persisted override raises.
C12_ScopeOverridesThenUnwinds ==
    /\ \A r \in Requests :
          stack[r] # <<>> => CachedSwitch(r, Top(r).key) = Top(r).active
    /\ (ret.op = "WaffleSwitchNamespace.is_enabled" /\ stack[ret.req] # <<>>) =>
          ret.value = Top(ret.req).active
    /\ (ret.op = "override.enter" /\ ret.raised = None) =>
          /\ switchStore[ret.key] = ret.frame.active
          /\ stack[ret.req] # <<>>
          /\ Top(ret.req) = ret.frame
    /\ (ret.op = "override_in_model.exit" /\ ret.raised = None) =>
          /\ switchStore[ret.key] = ret.frame.old_value
          /\ CachedSwitch(ret.req, ret.key) = ret.frame.active
    /\ ret.op = "override.finally" =>
          /\ ret.frame.phase = "released"
          /\ CachedSwitch(ret.req, ret.key) = EffectiveAtEntry(ret.frame)
    /\ (ret.op = "override.enter" /\ ret.raised # None) =>
          /\ CachedSwitch(ret.req, ret.key) = EffectiveAtEntry(ret.frame)
          /\ switchStore = ret.frame.storeAtEntry

\* C12, witness: leaving the persisted override raised after the block had
\* returned, and the request cache, which held the other value during the
\* scope, is back at the value it had at entry.
C12_Witness ==
    /\ ret.op = "override.finally"
    /\ ret.frame.left = "raise"
    /\ ret.frame.active # EffectiveAtEntry(ret.frame)
    /\ CachedSwitch(ret.req, ret.key) = EffectiveAtEntry(ret.frame)

\* ------------------------------------------------------------ frame effects

ReadOps ==
    {"WaffleSwitchNamespace.is_enabled", "WaffleFlag.is_enabled",
     "CourseOverrideWaffleFlag.is_enabled", "override_for_request"}

InModelOps == {"override_in_model.enter", "override_in_model.exit"}

\* C13: is_enabled of a switch, is_enabled of a flag (plain or course-aware)
\* and override_for_request leave the switch store, the global flag store and
\* the course override store as they are; entering and leaving
\* override_in_model change the persisted value of its switch and nothing
\* else, the request cache included; and is_enabled of a switch that the
\* request has cached returns the cached value inside an override_in_model
\* scope.
C13_NoWriteBack ==
    [][/\ ret'.op \in ReadOps =>
            /\ switchStore' = switchStore
            /\ flagStore' = flagStore
            /\ courseOverride' = courseOverride
       /\ (ret'.op \in InModelOps /\ ret'.frame.kind = "override_in_model") =>
            /\ cache' = cache
            /\ flagStore' = flagStore
            /\ courseOverride' = courseOverride
            /\ switchStore' =
                 [switchStore EXCEPT ![ret'.key] =
                    IF ret'.op = "override_in_model.enter"
                    THEN ret'.frame.active ELSE ret'.frame.old_value]
       /\ (/\ ret'.op = "WaffleSwitchNamespace.is_enabled"
           /\ stack[ret'.req] # <<>>
           /\ ret'.key \in DOMAIN _cached_switches(ret'.req)) =>
            ret'.value = _cached_switches(ret'.req)[ret'.key]
      ]_vars

\* C13, witness: inside an override_in_model scope that set the store to the
\* other value, is_enabled returned the value the request had cached.
C13_Witness ==
    /\ ret.op = "WaffleSwitchNamespace.is_enabled"
    /\ stack[ret.req] # <<>>
    /\ Top(ret.req).kind = "override_in_model"
    /\ ret.cached \in PyBool
    /\ ret.value = ret.cached
    /\ switchStore[ret.key] = Top(ret.req).active
    /\ switchStore[ret.key] # ret.value

\* -------------------------------------------------------- switch memoization

SwitchRead == ret.op = "WaffleSwitchNamespace.is_enabled"

\* C14: is_enabled(switch) returns the value the request cache holds for the
\* switch without asking the switch store, and when the cache holds none it
\* returns the store's value and caches it; so a call returns the value the
\* request established before for the switch, by its first is_enabled or by
\* its last override_for_request or override, whatever the store holds now.
C14_SwitchMemoized ==
    SwitchRead =>
        /\ ret.cached \in PyBool =>
                /\ ret.value = ret.cached
                /\ ret.waffle = NotCalled
        /\ ret.cached = None =>
                /\ ret.value = switchStore[ret.key]
                /\ ret.waffle = ret.value
        /\ ret.cached \in PyBool \cup {None}
        /\ CachedSwitch(ret.req, ret.key) = ret.value
        /\ ret.own # None => ret.value = ret.own

\* C14, witness: outside any scope, a call returns the value the request
\* established earlier although the store now holds the other value.
C14_Witness ==
    /\ SwitchRead
    /\ stack[ret.req] = <<>>
    /\ ret.own # None
    /\ ret.value = ret.own
    /\ ret.waffle = NotCalled
    /\ switchStore[ret.key] # ret.value

\* ------------------------------------------------ the migration, run at once

\* The runs that found no row and have not inserted yet.
Pending == {p \in Runners : pc[p] = "checked" /\ ~exists[p]}

\* C15: every run of forwards whose check found no row inserts a row with
\* enabled = True, whatever the table holds by then: the rows added to the
\* table and the inserts still to come are as many as the runs that found no
\* row, so two runs that both check an empty table before either inserts
\* leave two rows.
C15_ConcurrentRunsBothInsert ==
    /\ Len(table) + Cardinality(Pending) = Len(initial) + found_none
    /\ \A i \in 1..Len(table) :
          IF i <= Len(initial) THEN table[i] = initial[i]
          ELSE table[i] = [enabled |-> True]
    /\ \A p \in Runners, q \in Runners :
          (p # q /\ p \in Pending /\ q \in Pending) => found_none >= 2

\* C15, witness: the table was empty, two runs found it empty, and it holds
\* two rows now that no run is under way.
C15_Witness ==
    /\ initial = <<>>
    /\ NoRunUnderWay
    /\ found_none = 2
    /\ Len(table) = 2

\* ------------------------------------------------------------ nested scopes

ScopeUnwound == ret.op = "override.finally"

\* C16: when a scope nested in another scope of the request on the same
\* switch has exited, by return or by exception, the request cache holds the
\* enclosing scope's active value, which is_enabled returns; when the
\* outermost scope has exited the cache holds the value is_enabled had
\* before that scope was entered; and is_enabled returns what the cache
\* holds.
C16_NestedScopesUnwindInOrder ==
    /\ (ScopeUnwound /\ stack[ret.req] # <<>>) =>
          /\ CachedSwitch(ret.req, ret.key) = Top(ret.req).active
          /\ ret.frame.previous_active = Top(ret.req).active
    /\ (ScopeUnwound /\ stack[ret.req] = <<>>) =>
          CachedSwitch(ret.req, ret.key) = EffectiveAtEntry(ret.frame)
    /\ (ret.op = "override.enter" /\ ret.raised # None /\ stack[ret.req] # <<>>) =>
          CachedSwitch(ret.req, ret.key) = Top(ret.req).active
    /\ (SwitchRead /\ ret.cached \in PyBool) => ret.value = ret.cached
    /\ \A r \in Requests : \A i \in 2..Len(stack[r]) :
          stack[r][i].previous_active = stack[r][i - 1].active

\* C16, witness: an inner scope that had the other value than the scope
\* around it exits by an exception, and the cache holds the value of the
\* scope around it, which is not the value from before that scope.
C16_Witness ==
    /\ ScopeUnwound
    /\ ret.how = "raise"
    /\ stack[ret.req] # <<>>
    /\ ret.frame.active # Top(ret.req).active
    /\ Top(ret.req).active # EffectiveAtEntry(Top(ret.req))
    /\ CachedSwitch(ret.req, ret.key) = Top(ret.req).active

\* Calls that go through WaffleFlagNamespace.is_enabled, and the operations
\* of WaffleSwitchNamespace.
FlagReadOps == FlagOps \cup {"WaffleFlagNamespace.is_enabled"}

SwitchNamespaceOps ==
    {"WaffleSwitchNamespace.is_enabled", "override_for_request",
     "override.enter", "override.exit"}

CachedFlag(r, namespaced_flag_name) == Get(cache[r].flags, namespaced_flag_name)

\* C17: a switch and a flag of the same namespaced name never read or
\* overwrite each other's cached value.  An operation of
\* WaffleSwitchNamespace leaves the 'flags' dict of every request as it was;
\* is_enabled of a switch answers from the 'switches' entry when there is
\* one, and otherwise asks waffle and stores the answer there, whatever
\* 'flags' holds.  WaffleFlagNamespace.is_enabled leaves the 'switches' dict
\* of every request as it was; it answers from the 'flags' entry when there
\* is one, without callback or waffle, and otherwise computes the value and
\* stores it there, whatever 'switches' holds.  The 'flags' entry is one per
\* namespaced name: the answer comes from it whichever namespace object of
\* that namespace string, and whichever of WaffleFlag and
\* CourseOverrideWaffleFlag, makes the call.
C17_SwitchAndFlagCachesDisjoint ==
    [][ /\ ret'.op \in SwitchNamespaceOps =>
              \A r \in Requests : cache'[r].flags = cache[r].flags
        /\ ret'.op = "WaffleSwitchNamespace.is_enabled" =>
              IF CachedSwitch(ret'.req, ret'.key) = None
              THEN /\ ret'.value = switchStore[ret'.key]
                   /\ ret'.waffle = ret'.value
                   /\ cache'[ret'.req].switches =
                          Put(cache[ret'.req].switches, ret'.key, ret'.value)
              ELSE /\ ret'.value = CachedSwitch(ret'.req, ret'.key)
                   /\ ret'.waffle = NotCalled
                   /\ cache'[ret'.req].switches = cache[ret'.req].switches
        /\ (ret'.op \in FlagReadOps /\ ret'.raised = None) =>
              /\ \A r \in Requests : cache'[r].switches = cache[r].switches
              /\ IF CachedFlag(ret'.req, ret'.key) = None
                 THEN /\ ret'.cached = None
                      /\ ret'.callback \in PyBool \/ ret'.waffle = flagStore[ret'.key]
                      /\ cache'[ret'.req].flags =
                             Put(cache[ret'.req].flags, ret'.key, ret'.value)
                 ELSE /\ ret'.value = CachedFlag(ret'.req, ret'.key)
                      /\ ret'.callback = NotCalled
                      /\ ret'.waffle = NotCalled
                      /\ cache'[ret'.req].flags = cache[ret'.req].flags
      ]_vars

\* C17, witness: the request holds False for the switch and True for the flag
\* of the same namespaced name; waffle says False for the flag, so the True
\* was stored by CourseOverrideWaffleFlag on the first namespace object, and
\* the other namespace object has just answered True from that entry.
C17_Witness ==
    /\ ret.op = "WaffleFlagNamespace.is_enabled"
    /\ ret.self = OTHER_FLAG_NAMESPACE.id
    /\ ret.key \in SwitchKeys \cap FlagKeys
    /\ flagStore[ret.key] = False
    /\ ret.cached = True
    /\ ret.value = True
    /\ ret.waffle = NotCalled
    /\ CachedFlag(ret.req, ret.key) = True
    /\ CachedSwitch(ret.req, ret.key) = False

====
